---- MODULE Spec2Model ----
(***************************************************************************)
(* Model of package gree (src/gree.go, the current version of the package  *)
(* that starts at line 346): a tree of labelled nodes and its rendering as *)
(* a box-drawing diagram.                                                  *)
(*                                                                         *)
(* The heap of Node structs is the variable nodes: a sequence of records,  *)
(* a *Node being an index into it and Nil the nil pointer.  Strings are    *)
(* sequences of runes; a rune is a one-character string, and the box       *)
(* drawing runes (which the module's character set cannot spell) are named *)
(* by the definitions vbar, horos, sibCharS, sibCharLastS, topLeft,        *)
(* topRight and bottomRight.                                               *)
(*                                                                         *)
(* Fields of Node that the package only writes (amSibling,                 *)
(* parentIsSibling, parentIsLastSibling, parentIsRoot, contentLength,      *)
(* contentFontWidth, done, x2 excepted) are left out: no code reads them.  *)
(***************************************************************************)
EXTENDS Integers, Sequences, FiniteSets, TLC

VARIABLES nodes, renders

vars == <<nodes, renders>>

----------------------------------------------------------------------------
(* Bounds *)

MaxNodes == 4
MaxRenders == 1
MaxBigNodes == 5
MaxTreeNodes == 5
MaxDeepNodes == 6
MaxGraftNodes == 3
MaxAttach == 3
MaxPadNodes == 3
MaxColorNodes == 3
MaxColorings == 2
MaxFreshNodes == 4
MaxRulerLabel == 16

----------------------------------------------------------------------------
(* Runes and strings *)

Nil == 0
NUL == "NUL"
NL == "\n"
vbar == "VBAR"
horos == "HORO"
sibCharLastS == "LAST"
sibCharS == "SIB"
topLeft == "TOPLEFT"
topRight == "TOPRIGHT"
bottomRight == "BOTTOMRIGHT"

DefaultPadding == <<" ", " ", " ">>

Labels == {<<"a", "b">>}

Repeat(ru, k) == [i \in 1..k |-> ru]

RECURSIVE Flatten(_)
Flatten(ss) == IF ss = <<>> THEN <<>> ELSE Head(ss) \o Flatten(Tail(ss))

Digit(d) == CASE d = 0 -> "0" [] d = 1 -> "1" [] d = 2 -> "2" [] d = 3 -> "3"
              [] d = 4 -> "4" [] d = 5 -> "5" [] d = 6 -> "6" [] d = 7 -> "7"
              [] d = 8 -> "8" [] d = 9 -> "9"

RECURSIVE Itoa(_)
Itoa(i) == IF i < 10 THEN <<Digit(i)>> ELSE Append(Itoa(i \div 10), Digit(i % 10))

firstRuneChar(s) == IF Len(s) > 0 THEN s[1] ELSE " "

----------------------------------------------------------------------------
(* Tree model *)

NewNodeRec(contents) ==
    [parent |-> Nil, lineage |-> <<>>, children |-> <<>>,
     contents |-> contents, contentsColored |-> <<>>, colored |-> FALSE,
     padding |-> DefaultPadding, depth |-> 0,
     amLastSibling |-> FALSE, isRoot |-> FALSE,
     x1 |-> 0, x2 |-> 0, index |-> 0, count |-> 0]

\* color.New(attribute).Sprint(s) of fatih/color: s between the escape
\* sequence that sets the attribute and the one that resets it, s itself
\* when the library has its colours switched off (NoColor)
Sprint(attribute, s, noColor) ==
    IF noColor THEN s
    ELSE <<"ESC", "[">> \o attribute \o <<"m">> \o s \o <<"ESC", "[", "0", "m">>

SetColor(h, n, attribute, noColor) ==
    LET h1 == IF h[n].contentsColored = <<>>
              THEN [h EXCEPT ![n].contentsColored = h[n].contents]
              ELSE h
    IN  [h1 EXCEPT ![n].contentsColored = Sprint(attribute, @, noColor),
                   ![n].colored = TRUE]

GetDepth(h, n) == h[n].depth

NumChildren(h, n) == Len(h[n].children)

\* GetChild that counts the children from 1
GetChildFromOne(h, n, y) == IF y \in 1..Len(h[n].children) THEN h[n].children[y] ELSE Nil

\* the loop of GetChild from the i-th element of the range on (i counts from 0)
RECURSIVE getChildFrom(_, _, _, _)
getChildFrom(h, n, y, i) ==
    IF i >= Len(h[n].children) THEN Nil
    ELSE IF y = i THEN h[n].children[i + 1]
    ELSE getChildFrom(h, n, y, i + 1)

GetChild(h, n, y) == getChildFrom(h, n, y, 0)

\* setx1 that leaves the contents out of x2
setx1NoContents(h, n, x) == [h EXCEPT ![n].x1 = x, ![n].x2 = x]

setx1(h, n, x) == [h EXCEPT ![n].x1 = x, ![n].x2 = x + Len(h[n].contents)]

RECURSIVE parentHops(_, _)
parentHops(h, p) == IF p = Nil THEN 0 ELSE 1 + parentHops(h, h[p].parent)

\* updateDepths without the descent into the children
updateDepthsShallow(h, n) == [h EXCEPT ![n].depth = parentHops(h, h[n].parent)]

RECURSIVE updateDepths(_, _), updateDepthsChildren(_, _, _)
updateDepths(h, n) ==
    LET h1 == [h EXCEPT ![n].depth = parentHops(h, h[n].parent)]
    IN  updateDepthsChildren(h1, h1[n].children, 1)
updateDepthsChildren(h, cs, i) ==
    IF i > Len(cs) THEN h ELSE updateDepthsChildren(updateDepths(h, cs[i]), cs, i + 1)

\* the loop `for parent != nil` of updateDepths, started at p, comes to an
\* end: it does so within Len(h) hops or it runs round a cycle for ever
RECURSIVE parentLoopEnds(_, _, _)
parentLoopEnds(h, p, hops) ==
    IF p = Nil THEN TRUE
    ELSE IF hops = 0 THEN FALSE
    ELSE parentLoopEnds(h, h[p].parent, hops - 1)

\* updateDepths on n returns: the parent loop ends at every node visited
\* and the recursion into the children never comes back to a node that is
\* still being visited (path)
RECURSIVE updateDepthsEnds(_, _, _)
updateDepthsEnds(h, n, path) ==
    /\ parentLoopEnds(h, h[n].parent, Len(h))
    /\ n \notin path
    /\ \A i \in 1..Len(h[n].children) : updateDepthsEnds(h, h[n].children[i], path \cup {n})

\* the recursion of GetAllDescendents (and of dive, diveRetrieve, relate)
\* into the children returns
RECURSIVE descentEnds(_, _, _)
descentEnds(h, n, path) ==
    /\ n \notin path
    /\ \A i \in 1..Len(h[n].children) : descentEnds(h, h[n].children[i], path \cup {n})

\* the assignments of AddChild with the new child put in front
attachFront(h, n, nc) ==
    LET h1 == [h EXCEPT ![nc].parent = n]
        h2 == [h1 EXCEPT ![nc].depth = h1[n].depth + 1]
    IN  [h2 EXCEPT ![n].children = <<nc>> \o @]

\* the assignments of AddChild before its call of updateDepths
attach(h, n, nc) ==
    LET h1 == [h EXCEPT ![nc].parent = n]
        h2 == [h1 EXCEPT ![nc].depth = h1[n].depth + 1]
    IN  [h2 EXCEPT ![n].children = Append(@, nc)]

\* n.AddChild(nc) returns
AddChildEnds(h, n, nc) == updateDepthsEnds(attach(h, n, nc), n, {})

AddChild(h, n, nc) == updateDepths(attach(h, n, nc), n)

\* AddChild returning its receiver
AddChildCallReturnsReceiver(h, n, nc) == [h |-> AddChild(h, n, nc), ret |-> n]

\* n.AddChild(nc): the heap after the call and the pointer returned
AddChildCall(h, n, nc) == [h |-> AddChild(h, n, nc), ret |-> nc]

\* n.NewChild(contents): the heap after the call and the pointer returned
NewChildCall(h, n, contents) == AddChildCall(Append(h, NewNodeRec(contents)), n, Len(h) + 1)

\* sort.Slice by index; for the at most 12 elements of the model's slices
\* sort.Slice is an insertion sort, which keeps equal elements in order.
RECURSIVE insertByIndex(_, _, _)
insertByIndex(h, sorted, e) ==
    IF sorted = <<>> THEN <<e>>
    ELSE LET last == sorted[Len(sorted)]
         IN  IF h[e].index < h[last].index
             THEN Append(insertByIndex(h, SubSeq(sorted, 1, Len(sorted) - 1), e), last)
             ELSE Append(sorted, e)

\* no sort: the slice as it was collected
sortByIndexNone(h, s) == s

RECURSIVE sortByIndex(_, _)
sortByIndex(h, s) ==
    IF s = <<>> THEN <<>>
    ELSE insertByIndex(h, sortByIndex(h, SubSeq(s, 1, Len(s) - 1)), s[Len(s)])

\* GetAllDescendents without the descent: the children only
GetAllDescendentsShallow(h, n) == h[n].children

RECURSIVE GetAllDescendents(_, _), appendDescendents(_, _, _, _)
GetAllDescendents(h, n) ==
    sortByIndex(h, appendDescendents(h, h[n].children, 1, h[n].children))
appendDescendents(h, cs, i, all) ==
    IF i > Len(cs) THEN all
    ELSE appendDescendents(h, cs, i + 1, all \o GetAllDescendents(h, cs[i]))

RECURSIVE dive(_, _, _), diveChildren(_, _, _, _)
dive(h, n, depth) ==
    IF Len(h[n].children) > 0 THEN diveChildren(h, h[n].children, 1, depth + 1) ELSE depth
diveChildren(h, cs, i, depth) ==
    IF i > Len(cs) THEN depth
    ELSE LET d == dive(h, cs[i], depth)
         IN  diveChildren(h, cs, i + 1, IF d > depth THEN d ELSE depth)

RECURSIVE maxDepthChildren(_, _, _, _)
maxDepthChildren(h, cs, i, maxDepth) ==
    IF i > Len(cs) THEN maxDepth
    ELSE LET depth == dive(h, cs[i], 1)
         IN  maxDepthChildren(h, cs, i + 1, IF depth > maxDepth THEN depth ELSE maxDepth)

MaxDepth(h, n) == maxDepthChildren(h, h[n].children, 1, 0)

\* The collector is the pair of the heap (the clones made for desired = -1
\* are new nodes) and the results collected so far.
RECURSIVE diveRetrieve(_, _, _, _), diveRetrieveChildren(_, _, _, _, _)
diveRetrieve(hc, n, depth, desired) ==
    LET h == hc.h
        nn == Len(h) + 1
        clone == [NewNodeRec(h[n].contents) EXCEPT
                     !.padding = IF Len(h[n].padding) < 1 THEN DefaultPadding ELSE h[n].padding,
                     !.parent = h[n].parent,
                     !.children = h[n].children,
                     !.depth = depth]
        hc1 == IF desired = -1
               THEN [h |-> Append(h, clone), col |-> Append(hc.col, nn)]
               ELSE hc
    IN  IF depth + 1 = desired /\ Len(h[n].children) # 0
        THEN [hc1 EXCEPT !.col = @ \o h[n].children]
        ELSE IF Len(h[n].children) > 0
             THEN diveRetrieveChildren(hc1, h[n].children, 1, depth + 1, desired)
             ELSE hc1
diveRetrieveChildren(hc, cs, i, depth, desired) ==
    IF i > Len(cs) THEN hc
    ELSE diveRetrieveChildren(diveRetrieve(hc, cs[i], depth, desired), cs, i + 1, depth, desired)

\* GetGeneration starting the descent one level too deep
GetGenerationOffByOne(h, n, y) == diveRetrieve([h |-> h, col |-> <<>>], n, 1, y)

GetGeneration(h, n, y) == diveRetrieve([h |-> h, col |-> <<>>], n, 0, y)

----------------------------------------------------------------------------
(* Renderer: relayout *)

cleanLineage(input) == SelectSeq(input, LAMBDA p : p # Nil)

RECURSIVE relate(_, _, _, _, _), relateChildren(_, _, _, _)
relate(h, c, n, amLastSibling, parent) ==
    LET h1 == [h EXCEPT ![n].index = h[c].count]
        h2 == [h1 EXCEPT ![c].count = @ + 1]
        h3 == [h2 EXCEPT ![n].amLastSibling = amLastSibling]
        h4 == IF parent = Nil THEN h3
              ELSE LET a == IF h3[parent].isRoot
                            THEN setx1(h3, n, h3[parent].x1)
                            ELSE setx1(h3, n, h3[parent].x1 + Len(h3[n].padding) + 1)
                       b == [a EXCEPT ![n].lineage = Repeat(Nil, Len(a[parent].lineage) + 1)]
                       d == [b EXCEPT ![n].lineage = @ \o cleanLineage(b[parent].lineage)]
                   IN  [d EXCEPT ![n].lineage = Append(@, parent)]
        h5 == relateChildren(h4, c, n, 1)
    IN  [h5 EXCEPT ![n].lineage = cleanLineage(@)]
relateChildren(h, c, n, i) ==
    IF i > Len(h[n].children) THEN h
    ELSE relateChildren(relate(h, c, h[n].children[i], i = Len(h[n].children), n), c, n, i + 1)

relateAsRoot(h, n) == relate([h EXCEPT ![n].isRoot = TRUE], n, n, TRUE, n)

RECURSIVE maxDeclen(_, _, _, _)
maxDeclen(h, all, i, max) ==
    IF i > Len(all) THEN max
    ELSE LET declen == h[all[i]].x2 + Len(h[all[i]].padding)
         IN  maxDeclen(h, all, i + 1, IF declen > max THEN declen ELSE max)

\* getDescMaxWidth relates first, so it returns the heap with the width.
getDescMaxWidth(h, n) ==
    LET h1 == relateAsRoot(h, n)
    IN  [h |-> h1, max |-> maxDeclen(h1, GetAllDescendents(h1, n), 1, 0)]

RECURSIVE shiftEach(_, _, _, _)
shiftEach(h, all, i, amount) ==
    IF i > Len(all) THEN h
    ELSE shiftEach(setx1(h, all[i], h[all[i]].x1 + amount), all, i + 1, amount)

\* shiftAllRight that leaves the node itself where it is
shiftAllRightBelow(h, n, amount) == shiftEach(h, GetAllDescendents(h, n), 1, amount)

shiftAllRight(h, n, amount) ==
    LET h1 == setx1(h, n, h[n].x1 + amount)
    IN  shiftEach(h1, GetAllDescendents(h1, n), 1, amount)

----------------------------------------------------------------------------
(* Renderer: compositing *)

\* An rrow: contents maps the columns 0..width to runes, NUL where unset.
newRrow(width) == [contents |-> [i \in 0..width |-> NUL], width |-> width]

setRowI(r, i, ru, override) ==
    IF r.width >= i
    THEN IF override /\ r.contents[i] # NUL
         THEN [r EXCEPT !.contents[i] = ru]
         ELSE IF r.contents[i] = NUL
              THEN [r EXCEPT !.contents[i] = ru]
              ELSE r
    ELSE r

RECURSIVE appendRunes(_, _, _, _)
appendRunes(r, i, istr, j) ==
    IF j > Len(istr) THEN r
    ELSE appendRunes(setRowI(r, i + j - 1, istr[j], FALSE), i, istr, j + 1)

appendString(r, afterI, s) ==
    IF afterI \in 0..r.width THEN appendRunes(r, afterI, s, 1) ELSE r

str(r) == [i \in 1..(r.width + 1) |-> r.contents[i - 1]]

\* genDecorator with as many horizontal rules as the padding has runes
genDecoratorLong(h, n) ==
    IF h[n].isRoot THEN <<>>
    ELSE <<IF h[n].amLastSibling THEN sibCharLastS ELSE sibCharS>>
         \o Repeat(horos, Len(h[n].padding)) \o <<" ">>

genDecorator(h, n) ==
    IF h[n].isRoot THEN <<>>
    ELSE LET length == Len(h[n].padding) - 1
         IN  IF h[n].amLastSibling /\ ~h[n].isRoot
             THEN <<sibCharLastS>> \o Repeat(horos, length) \o <<" ">>
             ELSE <<sibCharS>> \o Repeat(horos, length) \o <<" ">>

padRune(h, n) == firstRuneChar(h[n].padding)

\* The columns in which render puts a bar into the row of n: the anchors of
\* the members of n's lineage that are neither last siblings nor roots.
lineageBars(h, n) ==
    {h[h[n].lineage[i]].x1 : i \in {j \in 1..Len(h[n].lineage) :
        ~h[h[n].lineage[j]].amLastSibling /\ ~h[h[n].lineage[j]].isRoot}}

\* render's loop over the columns 0..width of the row: the border, the
\* bars of the lineage, then the decorated label at the anchor or the fill
\* rune.
render(h, n, rowWidth, border) ==
    LET width == IF h[n].colored
                 THEN rowWidth + (Len(h[n].contentsColored) - Len(h[n].contents))
                 ELSE rowWidth
        decorated == genDecorator(h, n)
                     \o (IF h[n].colored THEN h[n].contentsColored ELSE h[n].contents)
        fill == padRune(h, n)
        bars == lineageBars(h, n)
        RECURSIVE columns(_, _)
        columns(x, row) ==
            IF x > row.width THEN row
            ELSE columns(x + 1,
                     LET r1 == IF (x = 0 \/ x = width) /\ border
                               THEN setRowI(row, x, vbar, TRUE) ELSE row
                         r2 == IF x \in bars THEN setRowI(r1, x, vbar, FALSE) ELSE r1
                     IN  IF x = h[n].x1
                         THEN appendString(r2, x, decorated)
                         ELSE setRowI(r2, x, fill, FALSE))
    IN  columns(0, newRrow(width))

\* genTopBorder with one horizontal rule too many
genTopBorderWide(width) == <<topLeft>> \o Repeat(horos, width) \o <<topRight>>

genTopBorder(width) == <<topLeft>> \o Repeat(horos, width - 1) \o <<topRight>>

genBottomBorder(width) == <<sibCharLastS>> \o Repeat(horos, width - 1) \o <<bottomRight>>

rulerTicks(maxWidth) == [k \in 1..(maxWidth + 1) |-> IF (k - 1) % 5 = 0 THEN "|" ELSE "."]

\* the label line without the skipping that makes up for labels of more
\* than one digit
rulerLabelsNoSkip(i, maxWidth, skipCount) ==
    Flatten([k \in 1..(maxWidth - i + 1) |-> IF (i + k - 1) % 5 = 0 THEN Itoa(i + k - 1) ELSE <<" ">>])

RECURSIVE rulerLabels(_, _, _)
rulerLabels(i, maxWidth, skipCount) ==
    IF i > maxWidth THEN <<>>
    ELSE IF i % 5 = 0
         THEN Itoa(i) \o rulerLabels(i + 1, maxWidth, skipCount + Len(Itoa(i)) - 1)
         ELSE IF skipCount = 0
              THEN <<" ">> \o rulerLabels(i + 1, maxWidth, skipCount)
              ELSE rulerLabels(i + 1, maxWidth, skipCount - 1)

drawRuler(maxWidth) ==
    <<NL>> \o rulerTicks(maxWidth) \o <<NL>> \o rulerLabels(0, maxWidth, 0) \o <<NL>>

RECURSIVE setPaddingEach(_, _, _, _)
setPaddingEach(h, all, i, padding) ==
    IF i > Len(all) \/ Len(padding) < 1 THEN h
    ELSE setPaddingEach([h EXCEPT ![all[i]].padding = padding], all, i + 1, padding)

\* setPadding returns an error
setPaddingErr(padding) == Len(padding) < 1

\* SetPaddingAll returns an error: the one of the first setPadding on a
\* descendant, nil when the loop over the descendants has nothing to do
SetPaddingAllErr(h, n, padding) ==
    LET h1 == [h EXCEPT ![n].padding = padding]
    IN  GetAllDescendents(h1, n) # <<>> /\ setPaddingErr(padding)

\* The heap after SetPaddingAll.
SetPaddingAll(h, n, padding) ==
    LET h1 == [h EXCEPT ![n].padding = padding]
    IN  setPaddingEach(h1, GetAllDescendents(h1, n), 1, padding)

\* The part of DrawOptions that writes to the nodes: the heap after the
\* call, the canvas width and the descendants in row order.
drawLayout(h, n, di) ==
    LET h1 == IF di.Padding # <<>> THEN SetPaddingAll(h, n, di.Padding) ELSE h
        h2 == relateAsRoot(h1, n)
        w  == getDescMaxWidth(h2, n)
        h3 == IF di.Border THEN shiftAllRight(w.h, n, 2) ELSE w.h
    IN  [h |-> h3,
         width |-> IF di.Border THEN w.max + 3 ELSE w.max,
         desc |-> GetAllDescendents(h3, n)]

\* di is a DrawInput; the result is the heap after the call, the canvas
\* width and the string returned.
DrawOptions(h, n, di) ==
    LET l == drawLayout(h, n, di)
        bmp == [i \in 0..Len(l.desc) |->
                   IF i = 0 THEN str(render(l.h, n, l.width, di.Border))
                   ELSE str(render(l.h, l.desc[i], l.width, di.Border))]
        top == IF di.Border THEN genTopBorder(l.width) \o <<NL>> ELSE <<>>
        body == Flatten([k \in 1..(Len(l.desc) + 1) |-> bmp[k - 1] \o <<NL>>])
        bottom == IF di.Border THEN genBottomBorder(l.width) \o <<NL>> ELSE <<>>
        ruler == IF di.Debug THEN drawRuler(l.width) ELSE <<>>
    IN  [h |-> l.h, width |-> l.width, rendering |-> top \o body \o bottom \o ruler]

drawInput(h, n) == [Border |-> FALSE, Debug |-> FALSE, Padding |-> h[n].padding]

Draw(h, n) == DrawOptions(h, n, drawInput(h, n))

----------------------------------------------------------------------------
(* Operations of the public API as actions on the heap *)

NodeIds == 1..Len(nodes)

RECURSIVE rootOf(_, _)
rootOf(h, n) == IF h[n].parent = Nil THEN n ELSE rootOf(h, h[n].parent)

\* gree.NewNode(contents)
NewNodeOp(labels, max) ==
    \E contents \in labels :
        /\ Len(nodes) < max
        /\ nodes' = Append(nodes, NewNodeRec(contents))
        /\ UNCHANGED renders

\* n.NewChild(contents)
NewChildOp(labels, max) ==
    \E n \in NodeIds, contents \in labels :
        /\ Len(nodes) < max
        /\ nodes' = NewChildCall(nodes, n, contents).h
        /\ UNCHANGED renders

\* n.AddChild(nc), nc the root of a separately built tree
AddChildOp ==
    \E n \in NodeIds, nc \in NodeIds :
        /\ nodes[nc].parent = Nil
        /\ rootOf(nodes, n) # nc
        /\ nodes' = AddChild(nodes, n, nc)
        /\ UNCHANGED renders

\* n.AddChild(nc) for any two nodes, nc = n, an ancestor of n and a node
\* attached elsewhere included; a call that does not return has no next
\* state.  attached is the number of elements of all children lists.
attached(h) == Len(Flatten([i \in 1..Len(h) |-> h[i].children]))

AddChildAnyOp ==
    \E n \in NodeIds, nc \in NodeIds :
        /\ attached(nodes) < MaxAttach
        /\ AddChildEnds(nodes, n, nc)
        /\ nodes' = AddChildCall(nodes, n, nc).h
        /\ UNCHANGED renders

\* n.SetPaddingAll(padding) with a padding that is not empty
SetPaddingAllOp(paddings) ==
    \E n \in NodeIds, padding \in paddings :
        /\ nodes' = SetPaddingAll(nodes, n, padding)
        /\ UNCHANGED renders

\* n.DrawOptions(&DrawInput{Border: border, Padding: padding})
DrawPaddedOp(paddings) ==
    \E n \in NodeIds, border \in BOOLEAN, padding \in paddings :
        /\ renders < MaxRenders
        /\ renders' = renders + 1
        /\ nodes' = drawLayout(nodes, n, [Border |-> border, Debug |-> FALSE, Padding |-> padding]).h

\* n.SetColor(attribute); colorings is the number of escape sequences that
\* set an attribute in the coloured contents of all nodes
colorings(h) ==
    Len(SelectSeq(Flatten([i \in 1..Len(h) |-> h[i].contentsColored]), LAMBDA ru : ru = "ESC")) \div 2

SetColorOp(attributes) ==
    \E n \in NodeIds, attribute \in attributes, noColor \in BOOLEAN :
        /\ colorings(nodes) < MaxColorings
        /\ nodes' = SetColor(nodes, n, attribute, noColor)
        /\ UNCHANGED renders

\* n.Draw() for n among roots; the string returned is Draw(nodes, n).rendering
DrawOp(roots) ==
    \E n \in roots :
        /\ renders < MaxRenders
        /\ renders' = renders + 1
        /\ nodes' = drawLayout(nodes, n, drawInput(nodes, n)).h

\* n.DrawOptions(&DrawInput{Border: border, Debug: debug}); the string
\* returned is DrawOptions(nodes, n, di).rendering
DrawOptionsOp ==
    \E n \in NodeIds, border \in BOOLEAN, debug \in BOOLEAN :
        /\ renders < MaxRenders
        /\ renders' = renders + 1
        /\ nodes' = drawLayout(nodes, n, [Border |-> border, Debug |-> debug, Padding |-> <<>>]).h

----------------------------------------------------------------------------
(* Spec: one tree grown by NewChild from a root made by NewNode, rendered  *)
(* from any of its nodes                                                   *)

Init == renders = 0 /\ \E contents \in Labels : nodes = <<NewNodeRec(contents)>>

NewChild == NewChildOp(Labels, MaxNodes)
DrawDefault == DrawOp(NodeIds)
DrawWithOptions == DrawOptionsOp

Next == NewChild \/ DrawDefault \/ DrawWithOptions

Spec == Init /\ [][Next]_vars

----------------------------------------------------------------------------
(* SpecBig: as Spec, with trees of up to MaxBigNodes nodes                 *)

NewChildBig == NewChildOp(Labels, MaxBigNodes)

NextBig == NewChildBig \/ DrawDefault \/ DrawWithOptions

SpecBig == Init /\ [][NextBig]_vars

----------------------------------------------------------------------------
(* SpecTree: building only, forests of up to MaxTreeNodes nodes with       *)
(* grafts by AddChild                                                      *)

InitTree == nodes = <<>> /\ renders = 0

NewNodeTree == NewNodeOp(Labels, MaxTreeNodes)
NewChildTree == NewChildOp(Labels, MaxTreeNodes)
AddChildTree == AddChildOp

NextTree == NewNodeTree \/ NewChildTree \/ AddChildTree

SpecTree == InitTree /\ [][NextTree]_vars

----------------------------------------------------------------------------
(* SpecGraft: building only, with AddChild given any node: up to           *)
(* MaxGraftNodes nodes and MaxAttach attachments                           *)

GraftLabels == {<<"a", "b">>, <<"x">>}

NewNodeGraft == NewNodeOp(GraftLabels, MaxGraftNodes)
NewChildGraft == attached(nodes) < MaxAttach /\ NewChildOp(GraftLabels, MaxGraftNodes)
AddChildGraft == AddChildAnyOp

NextGraft == NewNodeGraft \/ NewChildGraft \/ AddChildGraft

SpecGraft == InitTree /\ [][NextGraft]_vars

----------------------------------------------------------------------------
(* SpecPad: one tree of up to MaxPadNodes nodes, with the padding of       *)
(* subtrees set by SetPaddingAll or by the Padding option of DrawOptions   *)

Paddings == {<<".", ".">>}

NewChildPad == NewChildOp(Labels, MaxPadNodes)
SetPaddingAllPad == SetPaddingAllOp(Paddings)
DrawPadded == DrawPaddedOp(Paddings)

NextPad == NewChildPad \/ SetPaddingAllPad \/ DrawDefault \/ DrawPadded

SpecPad == Init /\ [][NextPad]_vars

----------------------------------------------------------------------------
(* SpecNamed: as Spec, each node labelled with the number of its creation  *)

InitNamed == renders = 0 /\ nodes = <<NewNodeRec(Itoa(1))>>

NewChildNamed == NewChildOp({Itoa(Len(nodes) + 1)}, MaxNodes)

NextNamed == NewChildNamed \/ DrawDefault \/ DrawWithOptions

SpecNamed == InitNamed /\ [][NextNamed]_vars

----------------------------------------------------------------------------
(* SpecColor: one tree of up to MaxColorNodes nodes, nodes coloured by     *)
(* SetColorMagenta up to MaxColorings times in all, and rendered           *)

FgMagenta == <<"3", "5">>

NewChildColor == NewChildOp(Labels, MaxColorNodes)
SetColorMagenta == SetColorOp({FgMagenta})

NextColor == NewChildColor \/ SetColorMagenta \/ DrawDefault \/ DrawWithOptions

SpecColor == Init /\ [][NextColor]_vars

----------------------------------------------------------------------------
(* SpecFresh: building only: one tree of up to MaxFreshNodes nodes under a *)
(* root with a short or a long label, the padding of subtrees set by       *)
(* SetPaddingAll; no render is ever made                                   *)

FreshLabels == {<<"a", "b">>, <<"a", "b", "c", "d", "e", "f", "g", "h">>}

InitFresh == renders = 0 /\ \E contents \in FreshLabels : nodes = <<NewNodeRec(contents)>>

NewChildFresh == NewChildOp(Labels, MaxFreshNodes)

NextFresh == NewChildFresh \/ SetPaddingAllPad

SpecFresh == InitFresh /\ [][NextFresh]_vars

----------------------------------------------------------------------------
(* SpecRuler: a root and one child, each with a label of up to             *)
(* MaxRulerLabel runes, rendered with or without border and ruler          *)

RulerLabels == {Repeat("a", k) : k \in 1..MaxRulerLabel}

InitRuler == renders = 0 /\ \E contents \in RulerLabels : nodes = <<NewNodeRec(contents)>>

NewChildRuler == NewChildOp(RulerLabels, 2)

NextRuler == NewChildRuler \/ DrawWithOptions

SpecRuler == InitRuler /\ [][NextRuler]_vars

----------------------------------------------------------------------------
(* SpecDeep: building only, one tree of up to MaxDeepNodes nodes           *)

NewChildDeep == NewChildOp(Labels, MaxDeepNodes)

NextDeep == NewChildDeep

SpecDeep == Init /\ [][NextDeep]_vars

----------------------------------------------------------------------------
(* SpecSimple: the program of TestDrawSimple and TestMaxWidth: the root    *)
(* "root", then nodes named child1, child2, child3, grandchild1 in the     *)
(* order of creation, each attached by NewChild, and a.Draw() on the root. *)

SimpleLabels ==
    << <<"r", "o", "o", "t">>,
       <<"c", "h", "i", "l", "d", "1">>,
       <<"c", "h", "i", "l", "d", "2">>,
       <<"c", "h", "i", "l", "d", "3">>,
       <<"g", "r", "a", "n", "d", "c", "h", "i", "l", "d", "1">> >>

InitSimple == renders = 0 /\ nodes = <<NewNodeRec(SimpleLabels[1])>>

NewChildSimple ==
    /\ Len(nodes) < Len(SimpleLabels)
    /\ NewChildOp({SimpleLabels[Len(nodes) + 1]}, Len(SimpleLabels))

DrawSimple == DrawOp({1})

NextSimple == NewChildSimple \/ DrawSimple

SpecSimple == InitSimple /\ [][NextSimple]_vars

----------------------------------------------------------------------------
(* Reference definitions used by the properties: the tree as a graph,     *)
(* read off the parent links and children lists alone.                     *)

RECURSIVE Ancestors(_, _)
Ancestors(h, n) ==
    IF h[n].parent = Nil THEN {} ELSE {h[n].parent} \cup Ancestors(h, h[n].parent)

Descendants(h, n) == {m \in 1..Len(h) : n \in Ancestors(h, m)}

\* number of edges from m up to its ancestor n
RelDepth(h, n, m) == Cardinality(Ancestors(h, m)) - Cardinality(Ancestors(h, n))

Max(S) == CHOOSE x \in S : \A y \in S : y <= x

Height(h, n) == Max({0} \cup {RelDepth(h, n, m) : m \in Descendants(h, n)})

RECURSIVE PreOrder(_, _), PreOrderOver(_, _, _)
PreOrder(h, n) == <<n>> \o PreOrderOver(h, h[n].children, 1)
PreOrderOver(h, cs, i) ==
    IF i > Len(cs) THEN <<>> ELSE PreOrder(h, cs[i]) \o PreOrderOver(h, cs, i + 1)

GenerationOf(h, x, n) == SelectSeq(PreOrder(h, x), LAMBDA m : RelDepth(h, x, m) = n)

IsLastChild(h, n) ==
    /\ h[n].parent # Nil
    /\ h[h[n].parent].children[Len(h[h[n].parent].children)] = n

Range(s) == {s[i] : i \in DOMAIN s}

\* the lines of a string: the runs of runes that end at a newline (a string
\* that does not end with a newline has no such cut after its last run)
SplitLines(s) ==
    LET ends == SelectSeq([i \in 1..Len(s) |-> i], LAMBDA i : s[i] = NL)
    IN  [k \in 1..Len(ends) |->
            SubSeq(s, IF k = 1 THEN 1 ELSE ends[k - 1] + 1, ends[k] - 1)]

DrawInputs == [Border : BOOLEAN, Debug : BOOLEAN, Padding : {<<>>}]

\* the node rows among the lines of a rendering: all lines but the two
\* rules of a border and the three lines that the ruler adds
NodeRows(lines, di) ==
    SubSeq(lines, IF di.Border THEN 2 ELSE 1,
           Len(lines) - (IF di.Border THEN 1 ELSE 0) - (IF di.Debug THEN 3 ELSE 0))

----------------------------------------------------------------------------
(* Properties *)

\* C1: after any sequence of NewNode, NewChild and AddChild of separately
\* built subtrees, the stored depth of every node is its number of
\* ancestors: 0 for a parentless node, depth(parent) + 1 for any other.
DepthIsAncestorCount ==
    \A n \in NodeIds :
        /\ GetDepth(nodes, n) = Cardinality(Ancestors(nodes, n))
        /\ nodes[n].parent = Nil => GetDepth(nodes, n) = 0
        /\ nodes[n].parent # Nil => GetDepth(nodes, n) = GetDepth(nodes, nodes[n].parent) + 1

\* a node created before its parent was attached by AddChild; here it has
\* children of its own and hangs under a node that is not the tree root
GraftedDeepSubtree ==
    \E n \in NodeIds :
        /\ nodes[n].parent # Nil
        /\ n < nodes[n].parent
        /\ nodes[nodes[n].parent].parent # Nil
        /\ \E c \in NodeIds : nodes[c].parent = n /\ c < nodes[n].parent /\ GetDepth(nodes, c) = 3

GenerationExact ==
    \A x \in NodeIds, n \in 1..(Len(nodes) + 2) :
        LET g == GetGeneration(nodes, x, n)
        IN  /\ g.col = GenerationOf(nodes, x, n)
            /\ g.h = nodes
            /\ n > Height(nodes, x) => g.col = <<>>
            /\ n > MaxDepth(nodes, x) + 1 => g.col = <<>>

\* a node with three children answers GetGeneration(1) with these three,
\* and has a second generation that spans two of them
GenerationOfThree ==
    \E x \in NodeIds :
        /\ NumChildren(nodes, x) = 3
        /\ GetGeneration(nodes, x, 1).col = nodes[x].children
        /\ Len(GetGeneration(nodes, x, 2).col) = 1
        /\ GetGeneration(nodes, x, 3).col = <<>>

\* C10: GetAllDescendents() on a root with k non-root nodes below it
\* returns exactly these k nodes, each once and never the root itself,
\* before and after a render (stated for every node and its subtree).
AllDescendentsExact ==
    \A n \in NodeIds :
        LET all == GetAllDescendents(nodes, n)
        IN  /\ Len(all) = Cardinality(Descendants(nodes, n))
            /\ Range(all) = Descendants(nodes, n)
            /\ n \notin Range(all)

\* a rendered root with children and grandchildren, and a node attached
\* after the render
DescendentsAfterRender ==
    \E n \in NodeIds :
        /\ nodes[n].parent = Nil
        /\ nodes[n].isRoot
        /\ Len(GetAllDescendents(nodes, n)) >= 3
        /\ Height(nodes, n) >= 2
        /\ \E m \in Descendants(nodes, n) : nodes[m].index > 0
        /\ \E m \in Descendants(nodes, n) : nodes[m].index = 0 /\ nodes[m].lineage = <<>>

\* C5: the output of a render rooted at r, r having k descendants, has
\* exactly k + 1 node rows, each ended by a newline: the row of r, then one
\* row per descendant in depth-first pre-order, which is the order that
\* GetAllDescendents returns after the relayout.
RowsInPreOrder ==
    \A r \in NodeIds : \A di \in DrawInputs \cup {drawInput(nodes, r)} :
        LET d == DrawOptions(nodes, r, di)
            order == PreOrder(nodes, r)
            lines == SplitLines(d.rendering)
            rows == NodeRows(lines, di)
        IN  /\ d.rendering # <<>>
            /\ d.rendering[Len(d.rendering)] = NL
            /\ Len(rows) = Cardinality(Descendants(nodes, r)) + 1
            /\ Len(lines) = Len(rows) + (IF di.Border THEN 2 ELSE 0) + (IF di.Debug THEN 3 ELSE 0)
            /\ Len(order) = Len(rows)
            /\ \A i \in 1..Len(rows) :
                   rows[i] = str(render(d.h, order[i], d.width, di.Border))
            /\ GetAllDescendents(d.h, r) = Tail(order)

RowsOfRenderedTree ==
    \E r \in NodeIds :
        /\ nodes[r].isRoot
        /\ NumChildren(nodes, r) >= 2
        /\ NumChildren(nodes, nodes[r].children[1]) >= 1
        /\ \A m \in Descendants(nodes, r) : nodes[m].index > 0
        /\ GetAllDescendents(nodes, r) = Tail(PreOrder(nodes, r))
        /\ appendDescendents(nodes, nodes[r].children, 1, nodes[r].children) # Tail(PreOrder(nodes, r))

\* C6: rendering is idempotent: on a tree that is not changed in between,
\* a second call of Draw or DrawOptions on the same root with the same
\* options returns the same string for the same canvas width, and
\* getDescMaxWidth returns the same value before and after each render.
RenderIdempotent ==
    \A r \in NodeIds : \A di \in DrawInputs \cup {drawInput(nodes, r)} :
        LET d1 == DrawOptions(nodes, r, di)
            d2 == DrawOptions(d1.h, r, di)
        IN  /\ d2.width = d1.width
            /\ d2.rendering = d1.rendering
            /\ getDescMaxWidth(d1.h, r).max = getDescMaxWidth(nodes, r).max
            /\ getDescMaxWidth(d2.h, r).max = getDescMaxWidth(d1.h, r).max

\* C3: in every render rooted at r the row of each node n other than r
\* has, from n's anchor column on, the connector (the last-sibling corner
\* if n is the last child of its parent, else the tee), padding width - 1
\* horizontal rules, a space and n's label; the row of r has no connector
\* and has r's label at r's anchor (for the row of r, as far as the row
\* reaches).
ConnectorAtAnchor ==
    \A r \in NodeIds : \A di \in DrawInputs \cup {drawInput(nodes, r)} :
        LET d == DrawOptions(nodes, r, di)
            order == PreOrder(nodes, r)
            rows == NodeRows(SplitLines(d.rendering), di)
        IN  \A i \in 1..Len(order) :
                LET n == order[i]
                    x == d.h[n].x1
                    row == rows[i]
                    seg == <<IF IsLastChild(nodes, n) THEN sibCharLastS ELSE sibCharS>>
                           \o Repeat(horos, Len(nodes[n].padding) - 1)
                           \o <<" ">> \o nodes[n].contents
                IN  IF n # r
                    THEN /\ x + Len(seg) <= Len(row)
                         /\ SubSeq(row, x + 1, x + Len(seg)) = seg
                    ELSE /\ sibCharS \notin Range(row)
                         /\ sibCharLastS \notin Range(row)
                         /\ x + 1 <= Len(row) => row[x + 1] = nodes[n].contents[1]

\* C4: in every render rooted at r, in the row of node n each column c to
\* the left of n's anchor (the border columns aside) holds the vertical bar
\* if and only if some proper ancestor p of n below r has anchor column c
\* and is not the last child of its parent; every other such column holds
\* the fill rune, the first rune of n's padding.
BarsAtAncestorAnchors ==
    \A r \in NodeIds : \A di \in DrawInputs \cup {drawInput(nodes, r)} :
        LET d == DrawOptions(nodes, r, di)
            order == PreOrder(nodes, r)
            rows == NodeRows(SplitLines(d.rendering), di)
        IN  \A i \in 1..Len(order) :
                LET n == order[i]
                    row == rows[i]
                IN  \A c \in 0..(d.h[n].x1 - 1) :
                        (c + 1 <= Len(row) /\ ~(di.Border /\ c \in {0, d.width})) =>
                            LET bar == \E p \in Ancestors(nodes, n) \cap Descendants(nodes, r) :
                                           d.h[p].x1 = c /\ ~IsLastChild(nodes, p)
                            IN  row[c + 1] = IF bar THEN vbar ELSE nodes[n].padding[1]

\* The tree of TestDrawSimple: child1, child2, child3 under root in this
\* order, grandchild1 under child3.
SimpleShape ==
    /\ Len(nodes) = 5
    /\ nodes[1].children = <<2, 3, 4>>
    /\ nodes[4].children = <<5>>

SimpleLines ==
    << SimpleLabels[1],
       <<sibCharS, horos, horos, " ">> \o SimpleLabels[2],
       <<sibCharS, horos, horos, " ">> \o SimpleLabels[3],
       <<sibCharLastS, horos, horos, " ">> \o SimpleLabels[4],
       <<" ", " ", " ", " ", sibCharLastS, horos, horos, " ">> \o SimpleLabels[5] >>

PadRight(line, w) == line \o Repeat(" ", w - Len(line))

\* C2 as stated: for the tree of TestDrawSimple Draw() returns the five
\* lines root, child1, child2, child3 and grandchild1 with their
\* connectors, 4 columns of indentation per generation and no other
\* character on any line (with or without a newline after the last line).
DrawSimpleExactLines ==
    SimpleShape =>
        LET got == Draw(nodes, 1).rendering
            want == Flatten([i \in 1..5 |-> SimpleLines[i] \o <<NL>>])
        IN  got = want \/ got = SubSeq(want, 1, Len(want) - 1)

\* C2 amended: Draw() returns these five lines in this order, each padded
\* on the right with spaces to the 19 columns of the canvas and each ended
\* by a newline.
DrawSimplePaddedLines ==
    SimpleShape =>
        Draw(nodes, 1).rendering = Flatten([i \in 1..5 |-> PadRight(SimpleLines[i], 19) \o <<NL>>])

\* a.Draw() has been called on the tree of TestDrawSimple
SimpleTreeDrawn ==
    /\ SimpleShape
    /\ nodes[1].isRoot
    /\ nodes[5].index > 0
    /\ nodes[5].x1 = 4

----------------------------------------------------------------------------
(* Properties of the children lists and of attaching *)

\* the children list of n as GetChild shows it for 0 <= y < NumChildren
ChildrenSeen(h, n) == [k \in 1..NumChildren(h, n) |-> GetChild(h, n, k - 1)]

\* GetChild(y) is the (y+1)-th element of the children list for
\* 0 <= y < NumChildren and nil for every other y
GetChildByPosition ==
    \A n \in NodeIds :
        /\ \A y \in 0..(NumChildren(nodes, n) - 1) : GetChild(nodes, n, y) = nodes[n].children[y + 1]
        /\ \A y \in (-3..(MaxAttach + 3)) \ (0..(NumChildren(nodes, n) - 1)) : GetChild(nodes, n, y) = Nil

\* a step attaches at most one node: the list seen through NumChildren and
\* GetChild of one node grows by one element at its end, every other list
\* stays as it was
AttachStep ==
    LET old == 1..Len(nodes)
        grown == {n \in old : ChildrenSeen(nodes', n) # ChildrenSeen(nodes, n)}
    IN  /\ Cardinality(grown) <= 1
        /\ \A n \in grown :
               /\ NumChildren(nodes', n) = NumChildren(nodes, n) + 1
               /\ SubSeq(ChildrenSeen(nodes', n), 1, NumChildren(nodes, n)) = ChildrenSeen(nodes, n)
        /\ \A n \in (1..Len(nodes')) \ old : NumChildren(nodes', n) = 0

\* C11: the children list is insertion-ordered: every NewChild or AddChild
\* on a node makes NumChildren one larger and puts the attached node at
\* the end of what GetChild shows, no other node's list changes, and
\* GetChild(i) is the (i+1)-th attached child for 0 <= i < NumChildren and
\* nil, without failing, for every other i, negative ones included.
ChildrenInsertionOrdered == [][AttachStep]_vars /\ []GetChildByPosition

\* a node has two children of which the one attached first was created last
AttachedOutOfCreationOrder ==
    \E n \in NodeIds :
        /\ NumChildren(nodes, n) >= 2
        /\ GetChild(nodes, n, 0) > GetChild(nodes, n, 1)
        /\ GetChild(nodes, n, 1) # Nil

\* C12: n.NewChild(a) makes a new node with label a, attaches it as the
\* last child of n and returns it, not n, so that n.NewChild(a).NewChild(b)
\* makes b a child of a and a grandchild of n; AddChild(nc) returns nc.
NewChildReturnsChild ==
    \A n \in NodeIds :
        /\ \A a \in GraftLabels, b \in GraftLabels :
               LET c1 == NewChildCall(nodes, n, a)
                   c2 == NewChildCall(c1.h, c1.ret, b)
               IN  /\ c1.ret \notin NodeIds
                   /\ c1.ret # n
                   /\ c1.h[c1.ret].contents = a
                   /\ c1.h[c1.ret].parent = n
                   /\ c1.h[n].children = Append(nodes[n].children, c1.ret)
                   /\ c2.ret \notin NodeIds \cup {c1.ret}
                   /\ c2.h[c2.ret].contents = b
                   /\ c2.h[c2.ret].parent = c1.ret
                   /\ c2.h[c1.ret].children = <<c2.ret>>
                   /\ c2.h[c1.ret].parent = n
                   /\ c2.h[n].children = c1.h[n].children
        /\ \A nc \in NodeIds :
               AddChildEnds(nodes, n, nc) =>
                   /\ AddChildCall(nodes, n, nc).ret = nc
                   /\ AddChildCall(nodes, n, nc).h[n].children = Append(nodes[n].children, nc)

\* a chain of three generations has been built
ChainOfThree ==
    \E n \in NodeIds :
        /\ nodes[n].parent # Nil
        /\ nodes[nodes[n].parent].parent # Nil
        /\ nodes[nodes[n].parent].children = <<n>>

\* C14: every public operation other than the padding setter returns
\* without failure for every argument in every state reachable through the
\* API: AddChild given the receiver itself, an ancestor of the receiver or
\* a node attached elsewhere, and the descents of GetAllDescendents,
\* GetGeneration, MaxDepth and the renders.
OperationsTotal ==
    /\ \A n \in NodeIds, nc \in NodeIds : AddChildEnds(nodes, n, nc)
    /\ \A n \in NodeIds : descentEnds(nodes, n, {})

\* C15: the nodes form a forest: each node occurs at most once in all
\* children lists, c is in p's children list if and only if c's parent
\* link is p, and the parent links from any node reach a parentless node.
Forest ==
    /\ \A c \in NodeIds :
           Cardinality({pi \in NodeIds \X (1..MaxAttach) :
               pi[2] <= Len(nodes[pi[1]].children) /\ nodes[pi[1]].children[pi[2]] = c}) <= 1
    /\ \A p \in NodeIds, c \in NodeIds :
           (\E i \in 1..Len(nodes[p].children) : nodes[p].children[i] = c) <=> nodes[c].parent = p
    /\ \A n \in NodeIds : parentLoopEnds(nodes, n, Len(nodes))

----------------------------------------------------------------------------
(* Properties of the padding *)

\* C13: SetPaddingAll("") returns an error for every node it is called
\* on, whether the node has descendants or is a leaf.
EmptyPaddingRejected ==
    \A n \in NodeIds : SetPaddingAllErr(nodes, n, <<>>)

PadInputs == [Border : BOOLEAN, Debug : {FALSE}, Padding : Paddings]

\* C18: SetPaddingAll(p) and DrawOptions with the Padding p, p not empty,
\* on node x return no error and leave x and every descendant of x with
\* the padding p, and in the render every node below the first generation
\* has its connector Len(p) + 1 columns to the right of its parent's
\* anchor.
PaddingOverride ==
    \A x \in NodeIds : \A p \in Paddings :
        /\ ~SetPaddingAllErr(nodes, x, p)
        /\ \A m \in {x} \cup Descendants(nodes, x) : SetPaddingAll(nodes, x, p)[m].padding = p
        /\ \A di \in {i \in PadInputs : i.Padding = p} :
               LET d == DrawOptions(nodes, x, di)
                   order == PreOrder(nodes, x)
                   rows == NodeRows(SplitLines(d.rendering), di)
               IN  \A i \in 1..Len(order) :
                       LET m == order[i]
                       IN  /\ d.h[m].padding = p
                           /\ (m # x /\ nodes[m].parent # x) =>
                                  /\ d.h[m].x1 = d.h[nodes[m].parent].x1 + Len(p) + 1
                                  /\ d.h[m].x1 + 1 <= Len(rows[i])
                                  /\ rows[i][d.h[m].x1 + 1] \in {sibCharS, sibCharLastS}

\* C19: after a relayout pass rooted at r every descendant n of r has the
\* anchor of its parent if its parent is r, and the anchor of its parent
\* plus the rune count of its own padding plus 1 otherwise.
AnchorsAfterRelayout ==
    \A r \in NodeIds :
        LET h == relateAsRoot(nodes, r)
        IN  \A n \in Descendants(nodes, r) :
                h[n].x1 = IF nodes[n].parent = r
                          THEN h[r].x1
                          ELSE h[nodes[n].parent].x1 + Len(nodes[n].padding) + 1

----------------------------------------------------------------------------
(* Properties of the display root and of the canvas width *)

\* the runes of the row that are neither fill, bar nor connector
Ink(row) == {row[c] : c \in 1..Len(row)} \ {" ", vbar, horos, sibCharS, sibCharLastS}

\* the first column (from 0) of the row that holds neither fill nor bar
FirstInkColumn(row) ==
    CHOOSE c \in 0..(Len(row) - 1) :
        /\ row[c + 1] \notin {" ", vbar}
        /\ \A b \in 0..(c - 1) : row[b + 1] \in {" ", vbar}

\* C16: Draw or DrawOptions on any node n renders n as the display root:
\* the rows are those of n and of n's descendants and of no other node
\* (each holds the label of its node and no other label), the row of n
\* comes first and has no connector, and the rows of n's children start in
\* the column in which the row of n starts.
DisplayRoot ==
    \A n \in NodeIds : \A di \in DrawInputs \cup {drawInput(nodes, n)} :
        LET d == DrawOptions(nodes, n, di)
            order == PreOrder(nodes, n)
            rows == NodeRows(SplitLines(d.rendering), di)
        IN  /\ Len(rows) = Len(order)
            /\ \A i \in 1..Len(order) : Ink(rows[i]) = {nodes[order[i]].contents[1]}
            /\ sibCharS \notin Range(rows[1])
            /\ sibCharLastS \notin Range(rows[1])
            /\ \A i \in 2..Len(order) :
                   nodes[order[i]].parent = n =>
                       /\ d.h[order[i]].x1 = d.h[n].x1
                       /\ FirstInkColumn(rows[i]) = FirstInkColumn(rows[1])

\* C20: the width that getDescMaxWidth computes for r is the maximum over
\* the descendants d of r of anchor(d) + rune count of d's label + rune
\* count of d's padding, 0 when r has no descendants, and it is the canvas
\* width of Draw(); for the tree of TestMaxWidth it is 18, before and
\* after a Draw().
CanvasWidth ==
    /\ \A r \in NodeIds :
           LET w == getDescMaxWidth(nodes, r)
           IN  /\ w.max = Max({0} \cup {w.h[d].x1 + Len(nodes[d].contents) + Len(nodes[d].padding) :
                                           d \in Descendants(nodes, r)})
               /\ Draw(nodes, r).width = w.max
    /\ SimpleShape => getDescMaxWidth(nodes, 1).max = 18

\* getDescMaxWidth is queried on the tree of TestMaxWidth after a.Draw()
WidthQueriedAfterDraw ==
    /\ SimpleShape
    /\ renders = 1
    /\ getDescMaxWidth(nodes, 1).max = 18
    /\ nodes[5].x2 = 15

----------------------------------------------------------------------------
(* Properties of the styling *)

\* the tree without its styling
Plain(h) == [i \in 1..Len(h) |-> [h[i] EXCEPT !.contentsColored = <<>>, !.colored = FALSE]]

\* the runes of the escape sequences
StyleRunes == {"ESC", "[", "3", "5", "0", "m"}

\* the runes of the row that are seen
Visible(row) == SelectSeq(row, LAMBDA ru : ru \notin StyleRunes)

ConnectorColumns(row) == {c \in 1..Len(row) : row[c] \in {sibCharS, sibCharLastS}}

\* C17: styling does not affect layout: a tree some of whose nodes have
\* had SetColor applied, once or more, renders with the anchors and the
\* canvas width of the same tree without the styling, every row has its
\* connector in the same column and as many visible runes (the runes of
\* the escape sequences not counted) as the row of the plain tree.
StyleKeepsLayout ==
    \A r \in NodeIds : \A di \in DrawInputs \cup {drawInput(nodes, r)} :
        LET styled == DrawOptions(nodes, r, di)
            plain == DrawOptions(Plain(nodes), r, di)
            rowsStyled == NodeRows(SplitLines(styled.rendering), di)
            rowsPlain == NodeRows(SplitLines(plain.rendering), di)
        IN  /\ styled.width = plain.width
            /\ \A n \in NodeIds : styled.h[n].x1 = plain.h[n].x1
            /\ Len(rowsStyled) = Len(rowsPlain)
            /\ \A i \in 1..Len(rowsPlain) :
                   /\ ConnectorColumns(rowsStyled[i]) = ConnectorColumns(rowsPlain[i])
                   /\ Len(Visible(rowsStyled[i])) = Len(rowsPlain[i])

----------------------------------------------------------------------------
(* Properties of GetGeneration(-1) *)

\* C21: GetGeneration(-1) on node x returns exactly one node, a new node
\* that has the label, the padding, the parent link and the children list
\* of x, however many descendants x has, and leaves every node of the tree
\* as it was.
GenerationMinusOneClone ==
    \A x \in NodeIds :
        LET g == GetGeneration(nodes, x, -1)
        IN  /\ Len(g.col) = 1
            /\ g.col[1] \notin NodeIds
            /\ g.h[g.col[1]].contents = nodes[x].contents
            /\ g.h[g.col[1]].padding = nodes[x].padding
            /\ g.h[g.col[1]].parent = nodes[x].parent
            /\ g.h[g.col[1]].children = nodes[x].children
            /\ SubSeq(g.h, 1, Len(nodes)) = nodes

----------------------------------------------------------------------------
(* Properties of a rejected padding *)

\* C22: a rejected padding change has no effect: when SetPaddingAll("")
\* on node n returns an error, the receiver and every other node have the
\* padding they had before the call, so that no node's padding is empty
\* before or after the call.
RejectedPaddingNoEffect ==
    \A n \in NodeIds :
        SetPaddingAllErr(nodes, n, <<>>) =>
            \A m \in NodeIds :
                /\ nodes[m].padding # <<>>
                /\ SetPaddingAll(nodes, n, <<>>)[m].padding = nodes[m].padding

----------------------------------------------------------------------------
(* Properties of the layout state across renders *)

\* the tree as NewNode, NewChild, AddChild, SetPaddingAll and SetColor made
\* it, with the fields that only the renderer writes as NewNode sets them
Fresh(h) ==
    [i \in 1..Len(h) |->
        [h[i] EXCEPT !.lineage = <<>>, !.amLastSibling = FALSE, !.isRoot = FALSE,
                     !.x1 = 0, !.x2 = 0, !.index = 0, !.count = 0]]

\* C23: the layout is computed from scratch by every render: a render
\* rooted at r, whatever renders rooted at other nodes came before it,
\* returns the string and the canvas width that it returns on the same tree
\* on which no render was ever made.
RenderFromScratch ==
    \A r \in NodeIds : \A di \in DrawInputs \cup {drawInput(nodes, r)} :
        ~nodes[r].isRoot =>
            /\ DrawOptions(nodes, r, di).rendering = DrawOptions(Fresh(nodes), r, di).rendering
            /\ DrawOptions(nodes, r, di).width = DrawOptions(Fresh(nodes), r, di).width

----------------------------------------------------------------------------
(* Properties of the rows against the canvas *)

\* s occurs in row as a run of consecutive runes
Contains(row, s) ==
    \E c \in 0..(Len(row) - Len(s)) : SubSeq(row, c + 1, c + Len(s)) = s

\* C24: in a render without border no label is cut: the row of every node,
\* the row of the render root included, contains the whole label of its
\* node, also when the render root has no children.
NoLabelTruncated ==
    \A r \in NodeIds : \A di \in {i \in DrawInputs : ~i.Border} \cup {drawInput(nodes, r)} :
        LET d == DrawOptions(nodes, r, di)
            order == PreOrder(nodes, r)
            rows == NodeRows(SplitLines(d.rendering), di)
        IN  \A i \in 1..Len(order) : Contains(rows[i], nodes[order[i]].contents)

----------------------------------------------------------------------------
(* Properties of the border *)

\* the Padding options tried: none, the one of Paddings, the node's own
BorderPaddings(r) == {<<>>, nodes[r].padding} \cup Paddings

\* C25: the border only wraps the diagram: on a tree that was never
\* rendered, each node row of the render with border is the vertical bar,
\* one fill rune of the row's node, the row of the render without border
\* and the vertical bar; the canvas with border is 3 columns wider and
\* every anchor is 2 columns further right.
BorderOnlyWraps ==
    nodes = Fresh(nodes) =>
        \A r \in NodeIds, debug \in BOOLEAN : \A padding \in BorderPaddings(r) :
            LET du == [Border |-> FALSE, Debug |-> debug, Padding |-> padding]
                db == [Border |-> TRUE, Debug |-> debug, Padding |-> padding]
                u == DrawOptions(nodes, r, du)
                b == DrawOptions(nodes, r, db)
                rowsU == NodeRows(SplitLines(u.rendering), du)
                rowsB == NodeRows(SplitLines(b.rendering), db)
                order == PreOrder(nodes, r)
            IN  /\ b.width = u.width + 3
                /\ Len(rowsB) = Len(order)
                /\ Len(rowsU) = Len(order)
                /\ \A i \in 1..Len(order) :
                       rowsB[i] = <<vbar, padRune(b.h, order[i])>> \o rowsU[i] \o <<vbar>>
                /\ \A m \in {r} \cup Descendants(nodes, r) : b.h[m].x1 = u.h[m].x1 + 2

\* a never rendered tree of three generations under a long root label, in
\* which not all nodes have the same padding and some row has a bar
BorderedFreshTree ==
    /\ nodes = Fresh(nodes)
    /\ Len(nodes) = 4
    /\ nodes[1].contents \in FreshLabels \ Labels
    /\ Height(nodes, 1) = 2
    /\ \E m \in NodeIds : nodes[m].padding # nodes[1].padding
    /\ \E m \in NodeIds : lineageBars(relateAsRoot(nodes, 1), m) # {}

----------------------------------------------------------------------------
(* Properties of the lineage *)

\* the proper ancestors of n from r down to n's parent, n below r or r itself
RECURSIVE AncestorChain(_, _, _)
AncestorChain(h, r, n) ==
    IF n = r THEN <<>> ELSE Append(AncestorChain(h, r, h[n].parent), h[n].parent)

\* C26: after a relayout pass rooted at r, the first and every later one,
\* the lineage of each descendant n of r is the chain of n's proper
\* ancestors from r down to n's parent, each once and in this order, and
\* the lineage of r is empty; a further pass leaves every lineage as long
\* as it was.
LineageIsAncestorChain ==
    \A r \in NodeIds :
        LET h1 == relateAsRoot(nodes, r)
            h2 == relateAsRoot(h1, r)
        IN  /\ h1[r].lineage = <<>>
            /\ \A n \in Descendants(nodes, r) :
                   /\ h1[n].lineage = AncestorChain(nodes, r, n)
                   /\ Len(h1[n].lineage) = RelDepth(nodes, r, n)
            /\ \A n \in {r} \cup Descendants(nodes, r) : Len(h2[n].lineage) = Len(h1[n].lineage)

----------------------------------------------------------------------------
(* Properties of the ruler *)

\* C27: with Debug set the render ends with an empty line, a tick line of
\* W + 1 runes for the canvas width W, "|" in every column that is a
\* multiple of 5 and "." in every other, and a label line in which the
\* decimal number of every multiple of 5 up to W starts in its own column,
\* ends before the next label starts and has spaces around it.
RulerAligned ==
    \A r \in NodeIds, border \in BOOLEAN :
        LET di == [Border |-> border, Debug |-> TRUE, Padding |-> <<>>]
            d == DrawOptions(nodes, r, di)
            W == d.width
            lines == SplitLines(d.rendering)
            ticks == lines[Len(lines) - 1]
            labels == lines[Len(lines)]
            fives == {c \in 0..W : c % 5 = 0}
        IN  /\ lines[Len(lines) - 2] = <<>>
            /\ Len(ticks) = W + 1
            /\ \A c \in 0..W : ticks[c + 1] = IF c \in fives THEN "|" ELSE "."
            /\ \A c \in fives :
                   /\ c + Len(Itoa(c)) <= Len(labels)
                   /\ SubSeq(labels, c + 1, c + Len(Itoa(c))) = Itoa(c)
                   /\ Len(Itoa(c)) < 5
            /\ \A k \in 0..(Len(labels) - 1) :
                   (\A c \in fives : k \notin c..(c + Len(Itoa(c)) - 1)) => labels[k + 1] = " "

\* a render of a canvas of 15 columns has been made: the child's label of
\* 12 runes ends in column 12, and the label line of the ruler, which ends
\* with the number 15, is one rune longer than the tick line
RulerOfTwoDigits ==
    /\ renders = 1
    /\ Len(nodes) = 2
    /\ nodes[2].x1 = 0
    /\ nodes[2].x2 = 12
    /\ Len(rulerLabels(0, 15, 0)) = 17

----------------------------------------------------------------------------
(* Properties of the render's effect on the tree *)

\* the fields of the nodes that make up the tree: all but the ones of the
\* layout
TreeFields(h) ==
    [i \in 1..Len(h) |->
        [parent |-> h[i].parent, children |-> h[i].children, contents |-> h[i].contents,
         padding |-> h[i].padding, depth |-> h[i].depth]]

\* what GetChild, NumChildren, GetDepth, GetGeneration and MaxDepth return
\* on the node n; for GetGeneration(-1) the nodes it returns are new ones,
\* so their tree fields stand for them
Queries(h, n) ==
    [child |-> [y \in -1..(Len(h) + 1) |-> GetChild(h, n, y)],
     num |-> NumChildren(h, n),
     depth |-> GetDepth(h, n),
     generation |-> [y \in 0..(Len(h) + 1) |-> GetGeneration(h, n, y).col],
     clones |-> LET g == GetGeneration(h, n, -1)
                IN  [k \in 1..Len(g.col) |-> TreeFields(g.h)[g.col[k]]],
     max |-> MaxDepth(h, n)]

\* C28: a render changes the layout only: after Draw() and after
\* DrawOptions with an empty Padding, on any node, every node has the
\* parent link, the children list, the label, the padding and the depth it
\* had before, and GetChild, NumChildren, GetDepth, GetGeneration and
\* MaxDepth return on every node what they returned before.
RenderKeepsTree ==
    \A r \in NodeIds : \A di \in DrawInputs \cup {drawInput(nodes, r)} :
        LET after == DrawOptions(nodes, r, di).h
        IN  /\ TreeFields(after) = TreeFields(nodes)
            /\ \A n \in NodeIds : Queries(after, n) = Queries(nodes, n)

====
